---- MODULE Spec2Model ----
(***************************************************************************)
(* Model of the DIDVerifier ink! contract (src/contract.rs).               *)
(*                                                                         *)
(* The contract is a single storage struct {identities, verifiers, owner}  *)
(* and seven messages.  The host executes one message at a time, so every  *)
(* message is one atomic action.  Besides the storage the model keeps the  *)
(* emitted events (in emission order), the last message with its caller    *)
(* and arguments (call) and the value it returned (result).                *)
(***************************************************************************)
EXTENDS Integers, Sequences, FiniteSets, TLC

(* ---- bounds of the model ---- *)
NumAccounts == 2
NumHashes == 2

(* AccountId values and [u8; 32] values: opaque, compared for equality only *)
AccountId == 1..NumAccounts
Hashes == 1..NumHashes
(* the (name, age, document_id) arguments the callers draw from *)
Persons ==
    { [name |-> "Alice", age |-> 30, document_id |-> "doc1"],
      [name |-> "Bob", age |-> 0, document_id |-> "doc2"] }

(* ---- Option<T> ---- *)
None == <<>>
Some(x) == <<x>>

(* ---- Result<(), &'static str> and the values the read messages return ---- *)
Ok == <<"Ok">>
Err(msg) == <<"Err", msg>>
Ret(v) == <<"Ret", v>>

(* ---- the error strings of the contract ---- *)
AlreadySubmitted == "Identity already submitted"
OnlyVerifiers == "Only verifiers can verify identities"
NotFound == "Identity not found"
AlreadyVerified == "Identity already verified"
ProofMismatch == "Proof hash does not match"
OnlyOwnerAdd == "Only the owner can add verifiers"
OnlyOwnerRemove == "Only the owner can remove verifiers"

VARIABLES identities, verifiers, owner, events, call, result

vars == <<identities, verifiers, owner, events, call, result>>

(* struct Identity *)
Identity(name, age, document_id, proof_hash, is_verified, verifier) ==
    [name |-> name, age |-> age, document_id |-> document_id,
     proof_hash |-> proof_hash, is_verified |-> is_verified,
     verifier |-> verifier]

(* event structs *)
IdentitySubmitted(account, name, age, proof_hash) ==
    [event |-> "IdentitySubmitted", account |-> account, name |-> name,
     age |-> age, proof_hash |-> proof_hash]

IdentityVerified(account, verifier) ==
    [event |-> "IdentityVerified", account |-> account, verifier |-> verifier]

(* HashMap::insert on a map modelled as a function over its key set *)
MapInsert(m, k, v) == [x \in DOMAIN m \cup {k} |-> IF x = k THEN v ELSE m[x]]

(* HashMap::get *)
MapGet(m, k) == IF k \in DOMAIN m THEN Some(m[k]) ELSE None

(* a constructor enrolling the deployer as the first verifier *)
Init_owner_enrolled ==
    /\ owner \in AccountId
    /\ verifiers = {owner}
    /\ identities = <<>>
    /\ events = <<>>
    /\ call = [op |-> "new", caller |-> owner]
    /\ result = Ok

(* new(): the deployer becomes the owner, both collections are empty *)
Init ==
    /\ owner \in AccountId
    /\ verifiers = {}
    /\ identities = <<>>
    /\ events = <<>>
    /\ call = [op |-> "new", caller |-> owner]
    /\ result = Ok

(* submit_identity without the contains_key guard: a later submission
   overwrites the stored record *)
submit_identity_overwrite(caller, name, age, document_id, proof_hash) ==
    /\ call' = [op |-> "submit_identity", caller |-> caller, name |-> name,
                age |-> age, document_id |-> document_id,
                proof_hash |-> proof_hash]
    /\ identities' = MapInsert(identities, caller,
           Identity(name, age, document_id, proof_hash, FALSE, None))
    /\ events' = Append(events,
           IdentitySubmitted(caller, name, age, proof_hash))
    /\ result' = Ok
    /\ UNCHANGED <<verifiers, owner>>

(* submit_identity rejecting only when the stored record is verified: an
   unverified record can be submitted again and is replaced *)
submit_identity_resubmit(caller, name, age, document_id, proof_hash) ==
    /\ call' = [op |-> "submit_identity", caller |-> caller, name |-> name,
                age |-> age, document_id |-> document_id,
                proof_hash |-> proof_hash]
    /\ IF caller \in DOMAIN identities /\ identities[caller].is_verified
       THEN /\ result' = Err(AlreadySubmitted)
            /\ UNCHANGED <<identities, verifiers, owner, events>>
       ELSE /\ identities' = MapInsert(identities, caller,
                   Identity(name, age, document_id, proof_hash, FALSE, None))
            /\ events' = Append(events,
                   IdentitySubmitted(caller, name, age, proof_hash))
            /\ result' = Ok
            /\ UNCHANGED <<verifiers, owner>>

(* submit_identity emitting its event before the contains_key guard, so a
   rejected submission is announced too *)
submit_identity_emit_first(caller, name, age, document_id, proof_hash) ==
    /\ call' = [op |-> "submit_identity", caller |-> caller, name |-> name,
                age |-> age, document_id |-> document_id,
                proof_hash |-> proof_hash]
    /\ events' = Append(events,
           IdentitySubmitted(caller, name, age, proof_hash))
    /\ IF caller \in DOMAIN identities
       THEN /\ result' = Err(AlreadySubmitted)
            /\ UNCHANGED <<identities, verifiers, owner>>
       ELSE /\ identities' = MapInsert(identities, caller,
                   Identity(name, age, document_id, proof_hash, FALSE, None))
            /\ result' = Ok
            /\ UNCHANGED <<verifiers, owner>>

(* submit_identity(name, age, document_id, proof_hash) called by caller *)
submit_identity(caller, name, age, document_id, proof_hash) ==
    /\ call' = [op |-> "submit_identity", caller |-> caller, name |-> name,
                age |-> age, document_id |-> document_id,
                proof_hash |-> proof_hash]
    /\ IF caller \in DOMAIN identities
       THEN /\ result' = Err(AlreadySubmitted)
            /\ UNCHANGED <<identities, verifiers, owner, events>>
       ELSE /\ identities' = MapInsert(identities, caller,
                   Identity(name, age, document_id, proof_hash, FALSE, None))
            /\ events' = Append(events,
                   IdentitySubmitted(caller, name, age, proof_hash))
            /\ result' = Ok
            /\ UNCHANGED <<verifiers, owner>>

(* verify_identity looking the identity up before it checks the caller *)
verify_identity_lookup_first(caller, account, proof_hash) ==
    /\ call' = [op |-> "verify_identity", caller |-> caller,
                account |-> account, proof_hash |-> proof_hash]
    /\ IF MapGet(identities, account) = None
       THEN /\ result' = Err(NotFound)
            /\ UNCHANGED <<identities, verifiers, owner, events>>
       ELSE IF caller \notin verifiers
       THEN /\ result' = Err(OnlyVerifiers)
            /\ UNCHANGED <<identities, verifiers, owner, events>>
       ELSE IF identities[account].is_verified
       THEN /\ result' = Err(AlreadyVerified)
            /\ UNCHANGED <<identities, verifiers, owner, events>>
       ELSE IF identities[account].proof_hash # proof_hash
       THEN /\ result' = Err(ProofMismatch)
            /\ UNCHANGED <<identities, verifiers, owner, events>>
       ELSE /\ identities' = [identities EXCEPT
                   ![account].is_verified = TRUE,
                   ![account].verifier = Some(caller)]
            /\ events' = Append(events, IdentityVerified(account, caller))
            /\ result' = Ok
            /\ UNCHANGED <<verifiers, owner>>

(* verify_identity marking the identity verified before it compares the
   hashes: the ProofMismatch path returns with the flag already written *)
verify_identity_mark_first(caller, account, proof_hash) ==
    /\ call' = [op |-> "verify_identity", caller |-> caller,
                account |-> account, proof_hash |-> proof_hash]
    /\ IF caller \notin verifiers
       THEN /\ result' = Err(OnlyVerifiers)
            /\ UNCHANGED <<identities, verifiers, owner, events>>
       ELSE IF MapGet(identities, account) = None
       THEN /\ result' = Err(NotFound)
            /\ UNCHANGED <<identities, verifiers, owner, events>>
       ELSE IF identities[account].is_verified
       THEN /\ result' = Err(AlreadyVerified)
            /\ UNCHANGED <<identities, verifiers, owner, events>>
       ELSE IF identities[account].proof_hash # proof_hash
       THEN /\ identities' = [identities EXCEPT
                   ![account].is_verified = TRUE]
            /\ result' = Err(ProofMismatch)
            /\ UNCHANGED <<verifiers, owner, events>>
       ELSE /\ identities' = [identities EXCEPT
                   ![account].is_verified = TRUE,
                   ![account].verifier = Some(caller)]
            /\ events' = Append(events, IdentityVerified(account, caller))
            /\ result' = Ok
            /\ UNCHANGED <<verifiers, owner>>

(* verify_identity treating the owner as a verifier *)
verify_identity_owner_allowed(caller, account, proof_hash) ==
    /\ call' = [op |-> "verify_identity", caller |-> caller,
                account |-> account, proof_hash |-> proof_hash]
    /\ IF caller \notin verifiers /\ caller # owner
       THEN /\ result' = Err(OnlyVerifiers)
            /\ UNCHANGED <<identities, verifiers, owner, events>>
       ELSE IF MapGet(identities, account) = None
       THEN /\ result' = Err(NotFound)
            /\ UNCHANGED <<identities, verifiers, owner, events>>
       ELSE IF identities[account].is_verified
       THEN /\ result' = Err(AlreadyVerified)
            /\ UNCHANGED <<identities, verifiers, owner, events>>
       ELSE IF identities[account].proof_hash # proof_hash
       THEN /\ result' = Err(ProofMismatch)
            /\ UNCHANGED <<identities, verifiers, owner, events>>
       ELSE /\ identities' = [identities EXCEPT
                   ![account].is_verified = TRUE,
                   ![account].verifier = Some(caller)]
            /\ events' = Append(events, IdentityVerified(account, caller))
            /\ result' = Ok
            /\ UNCHANGED <<verifiers, owner>>

(* verify_identity recording the verified account in place of the caller *)
verify_identity_records_account(caller, account, proof_hash) ==
    /\ call' = [op |-> "verify_identity", caller |-> caller,
                account |-> account, proof_hash |-> proof_hash]
    /\ IF caller \notin verifiers
       THEN /\ result' = Err(OnlyVerifiers)
            /\ UNCHANGED <<identities, verifiers, owner, events>>
       ELSE IF MapGet(identities, account) = None
       THEN /\ result' = Err(NotFound)
            /\ UNCHANGED <<identities, verifiers, owner, events>>
       ELSE IF identities[account].is_verified
       THEN /\ result' = Err(AlreadyVerified)
            /\ UNCHANGED <<identities, verifiers, owner, events>>
       ELSE IF identities[account].proof_hash # proof_hash
       THEN /\ result' = Err(ProofMismatch)
            /\ UNCHANGED <<identities, verifiers, owner, events>>
       ELSE /\ identities' = [identities EXCEPT
                   ![account].is_verified = TRUE,
                   ![account].verifier = Some(account)]
            /\ events' = Append(events, IdentityVerified(account, caller))
            /\ result' = Ok
            /\ UNCHANGED <<verifiers, owner>>

(* verify_identity without the comparison of the hashes *)
verify_identity_no_hash_check(caller, account, proof_hash) ==
    /\ call' = [op |-> "verify_identity", caller |-> caller,
                account |-> account, proof_hash |-> proof_hash]
    /\ IF caller \notin verifiers
       THEN /\ result' = Err(OnlyVerifiers)
            /\ UNCHANGED <<identities, verifiers, owner, events>>
       ELSE IF MapGet(identities, account) = None
       THEN /\ result' = Err(NotFound)
            /\ UNCHANGED <<identities, verifiers, owner, events>>
       ELSE IF identities[account].is_verified
       THEN /\ result' = Err(AlreadyVerified)
            /\ UNCHANGED <<identities, verifiers, owner, events>>
       ELSE /\ identities' = [identities EXCEPT
                   ![account].is_verified = TRUE,
                   ![account].verifier = Some(caller)]
            /\ events' = Append(events, IdentityVerified(account, caller))
            /\ result' = Ok
            /\ UNCHANGED <<verifiers, owner>>

(* verify_identity without the already-verified guard: a verified identity
   can be verified again *)
verify_identity_reverify(caller, account, proof_hash) ==
    /\ call' = [op |-> "verify_identity", caller |-> caller,
                account |-> account, proof_hash |-> proof_hash]
    /\ IF caller \notin verifiers
       THEN /\ result' = Err(OnlyVerifiers)
            /\ UNCHANGED <<identities, verifiers, owner, events>>
       ELSE IF MapGet(identities, account) = None
       THEN /\ result' = Err(NotFound)
            /\ UNCHANGED <<identities, verifiers, owner, events>>
       ELSE IF identities[account].proof_hash # proof_hash
       THEN /\ result' = Err(ProofMismatch)
            /\ UNCHANGED <<identities, verifiers, owner, events>>
       ELSE /\ identities' = [identities EXCEPT
                   ![account].is_verified = TRUE,
                   ![account].verifier = Some(caller)]
            /\ events' = Append(events, IdentityVerified(account, caller))
            /\ result' = Ok
            /\ UNCHANGED <<verifiers, owner>>

(* verify_identity setting the flag but not the verifier field *)
verify_identity_flag_only(caller, account, proof_hash) ==
    /\ call' = [op |-> "verify_identity", caller |-> caller,
                account |-> account, proof_hash |-> proof_hash]
    /\ IF caller \notin verifiers
       THEN /\ result' = Err(OnlyVerifiers)
            /\ UNCHANGED <<identities, verifiers, owner, events>>
       ELSE IF MapGet(identities, account) = None
       THEN /\ result' = Err(NotFound)
            /\ UNCHANGED <<identities, verifiers, owner, events>>
       ELSE IF identities[account].is_verified
       THEN /\ result' = Err(AlreadyVerified)
            /\ UNCHANGED <<identities, verifiers, owner, events>>
       ELSE IF identities[account].proof_hash # proof_hash
       THEN /\ result' = Err(ProofMismatch)
            /\ UNCHANGED <<identities, verifiers, owner, events>>
       ELSE /\ identities' = [identities EXCEPT
                   ![account].is_verified = TRUE]
            /\ events' = Append(events, IdentityVerified(account, caller))
            /\ result' = Ok
            /\ UNCHANGED <<verifiers, owner>>

(* verify_identity testing the verified account, not the caller, for
   membership in verifiers *)
verify_identity_checks_account(caller, account, proof_hash) ==
    /\ call' = [op |-> "verify_identity", caller |-> caller,
                account |-> account, proof_hash |-> proof_hash]
    /\ IF account \notin verifiers
       THEN /\ result' = Err(OnlyVerifiers)
            /\ UNCHANGED <<identities, verifiers, owner, events>>
       ELSE IF MapGet(identities, account) = None
       THEN /\ result' = Err(NotFound)
            /\ UNCHANGED <<identities, verifiers, owner, events>>
       ELSE IF identities[account].is_verified
       THEN /\ result' = Err(AlreadyVerified)
            /\ UNCHANGED <<identities, verifiers, owner, events>>
       ELSE IF identities[account].proof_hash # proof_hash
       THEN /\ result' = Err(ProofMismatch)
            /\ UNCHANGED <<identities, verifiers, owner, events>>
       ELSE /\ identities' = [identities EXCEPT
                   ![account].is_verified = TRUE,
                   ![account].verifier = Some(caller)]
            /\ events' = Append(events, IdentityVerified(account, caller))
            /\ result' = Ok
            /\ UNCHANGED <<verifiers, owner>>

(* verify_identity without the emit_event call *)
verify_identity_silent(caller, account, proof_hash) ==
    /\ call' = [op |-> "verify_identity", caller |-> caller,
                account |-> account, proof_hash |-> proof_hash]
    /\ IF caller \notin verifiers
       THEN /\ result' = Err(OnlyVerifiers)
            /\ UNCHANGED <<identities, verifiers, owner, events>>
       ELSE IF MapGet(identities, account) = None
       THEN /\ result' = Err(NotFound)
            /\ UNCHANGED <<identities, verifiers, owner, events>>
       ELSE IF identities[account].is_verified
       THEN /\ result' = Err(AlreadyVerified)
            /\ UNCHANGED <<identities, verifiers, owner, events>>
       ELSE IF identities[account].proof_hash # proof_hash
       THEN /\ result' = Err(ProofMismatch)
            /\ UNCHANGED <<identities, verifiers, owner, events>>
       ELSE /\ identities' = [identities EXCEPT
                   ![account].is_verified = TRUE,
                   ![account].verifier = Some(caller)]
            /\ result' = Ok
            /\ UNCHANGED <<verifiers, owner, events>>

(* verify_identity refusing a caller that verifies its own account *)
verify_identity_no_self(caller, account, proof_hash) ==
    /\ call' = [op |-> "verify_identity", caller |-> caller,
                account |-> account, proof_hash |-> proof_hash]
    /\ IF caller \notin verifiers \/ caller = account
       THEN /\ result' = Err(OnlyVerifiers)
            /\ UNCHANGED <<identities, verifiers, owner, events>>
       ELSE IF MapGet(identities, account) = None
       THEN /\ result' = Err(NotFound)
            /\ UNCHANGED <<identities, verifiers, owner, events>>
       ELSE IF identities[account].is_verified
       THEN /\ result' = Err(AlreadyVerified)
            /\ UNCHANGED <<identities, verifiers, owner, events>>
       ELSE IF identities[account].proof_hash # proof_hash
       THEN /\ result' = Err(ProofMismatch)
            /\ UNCHANGED <<identities, verifiers, owner, events>>
       ELSE /\ identities' = [identities EXCEPT
                   ![account].is_verified = TRUE,
                   ![account].verifier = Some(caller)]
            /\ events' = Append(events, IdentityVerified(account, caller))
            /\ result' = Ok
            /\ UNCHANGED <<verifiers, owner>>

(* verify_identity(account, proof_hash) called by caller; the checks run in
   the order of the code and the first failing one returns its error *)
verify_identity(caller, account, proof_hash) ==
    /\ call' = [op |-> "verify_identity", caller |-> caller,
                account |-> account, proof_hash |-> proof_hash]
    /\ IF caller \notin verifiers
       THEN /\ result' = Err(OnlyVerifiers)
            /\ UNCHANGED <<identities, verifiers, owner, events>>
       ELSE IF MapGet(identities, account) = None
       THEN /\ result' = Err(NotFound)
            /\ UNCHANGED <<identities, verifiers, owner, events>>
       ELSE IF identities[account].is_verified
       THEN /\ result' = Err(AlreadyVerified)
            /\ UNCHANGED <<identities, verifiers, owner, events>>
       ELSE IF identities[account].proof_hash # proof_hash
       THEN /\ result' = Err(ProofMismatch)
            /\ UNCHANGED <<identities, verifiers, owner, events>>
       ELSE /\ identities' = [identities EXCEPT
                   ![account].is_verified = TRUE,
                   ![account].verifier = Some(caller)]
            /\ events' = Append(events, IdentityVerified(account, caller))
            /\ result' = Ok
            /\ UNCHANGED <<verifiers, owner>>

(* add_verifier open to the current verifiers as well as the owner *)
add_verifier_by_verifiers(caller, verifier) ==
    /\ call' = [op |-> "add_verifier", caller |-> caller,
                verifier |-> verifier]
    /\ IF caller # owner /\ caller \notin verifiers
       THEN /\ result' = Err(OnlyOwnerAdd)
            /\ UNCHANGED <<identities, verifiers, owner, events>>
       ELSE /\ verifiers' = verifiers \cup {verifier}
            /\ result' = Ok
            /\ UNCHANGED <<identities, owner, events>>

(* add_verifier handing the ownership to the account it adds *)
add_verifier_takes_ownership(caller, verifier) ==
    /\ call' = [op |-> "add_verifier", caller |-> caller,
                verifier |-> verifier]
    /\ IF caller # owner
       THEN /\ result' = Err(OnlyOwnerAdd)
            /\ UNCHANGED <<identities, verifiers, owner, events>>
       ELSE /\ verifiers' = verifiers \cup {verifier}
            /\ owner' = verifier
            /\ result' = Ok
            /\ UNCHANGED <<identities, events>>

(* add_verifier refusing an account that is already a member *)
add_verifier_rejects_member(caller, verifier) ==
    /\ call' = [op |-> "add_verifier", caller |-> caller,
                verifier |-> verifier]
    /\ IF caller # owner \/ verifier \in verifiers
       THEN /\ result' = Err(OnlyOwnerAdd)
            /\ UNCHANGED <<identities, verifiers, owner, events>>
       ELSE /\ verifiers' = verifiers \cup {verifier}
            /\ result' = Ok
            /\ UNCHANGED <<identities, owner, events>>

(* add_verifier(verifier) called by caller *)
add_verifier(caller, verifier) ==
    /\ call' = [op |-> "add_verifier", caller |-> caller,
                verifier |-> verifier]
    /\ IF caller # owner
       THEN /\ result' = Err(OnlyOwnerAdd)
            /\ UNCHANGED <<identities, verifiers, owner, events>>
       ELSE /\ verifiers' = verifiers \cup {verifier}
            /\ result' = Ok
            /\ UNCHANGED <<identities, owner, events>>

(* remove_verifier that also withdraws the verifications the removed
   account has made *)
remove_verifier_revoking(caller, verifier) ==
    /\ call' = [op |-> "remove_verifier", caller |-> caller,
                verifier |-> verifier]
    /\ IF caller # owner
       THEN /\ result' = Err(OnlyOwnerRemove)
            /\ UNCHANGED <<identities, verifiers, owner, events>>
       ELSE /\ verifiers' = verifiers \ {verifier}
            /\ identities' = [a \in DOMAIN identities |->
                   IF identities[a].verifier = Some(verifier)
                   THEN [identities[a] EXCEPT !.is_verified = FALSE,
                                              !.verifier = None]
                   ELSE identities[a]]
            /\ result' = Ok
            /\ UNCHANGED <<owner, events>>

(* remove_verifier emptying the set in place of taking the one account *)
remove_verifier_clears_set(caller, verifier) ==
    /\ call' = [op |-> "remove_verifier", caller |-> caller,
                verifier |-> verifier]
    /\ IF caller # owner
       THEN /\ result' = Err(OnlyOwnerRemove)
            /\ UNCHANGED <<identities, verifiers, owner, events>>
       ELSE /\ verifiers' = {}
            /\ result' = Ok
            /\ UNCHANGED <<identities, owner, events>>

(* remove_verifier(verifier) called by caller *)
remove_verifier(caller, verifier) ==
    /\ call' = [op |-> "remove_verifier", caller |-> caller,
                verifier |-> verifier]
    /\ IF caller # owner
       THEN /\ result' = Err(OnlyOwnerRemove)
            /\ UNCHANGED <<identities, verifiers, owner, events>>
       ELSE /\ verifiers' = verifiers \ {verifier}
            /\ result' = Ok
            /\ UNCHANGED <<identities, owner, events>>

(* is_verified answering whether a record exists, whatever its flag *)
is_verified_of_any_record(ids, account) ==
    IF MapGet(ids, account) # None
    THEN TRUE
    ELSE FALSE

(* the values the three read messages compute from the storage they read *)
is_verified_of(ids, account) ==
    IF MapGet(ids, account) # None
    THEN ids[account].is_verified
    ELSE FALSE

get_identity_of(ids, account) == MapGet(ids, account)

is_verifier_of(vs, account) == account \in vs

(* is_verified(account) called by caller *)
is_verified(caller, account) ==
    /\ call' = [op |-> "is_verified", caller |-> caller, account |-> account]
    /\ result' = Ret(is_verified_of(identities, account))
    /\ UNCHANGED <<identities, verifiers, owner, events>>

(* get_identity(account) called by caller *)
get_identity(caller, account) ==
    /\ call' = [op |-> "get_identity", caller |-> caller, account |-> account]
    /\ result' = Ret(get_identity_of(identities, account))
    /\ UNCHANGED <<identities, verifiers, owner, events>>

(* is_verifier(account) called by caller *)
is_verifier(caller, account) ==
    /\ call' = [op |-> "is_verifier", caller |-> caller, account |-> account]
    /\ result' = Ret(is_verifier_of(verifiers, account))
    /\ UNCHANGED <<identities, verifiers, owner, events>>

Next ==
    \/ \E caller \in AccountId, p \in Persons, proof_hash \in Hashes :
          submit_identity(caller, p.name, p.age, p.document_id, proof_hash)
    \/ \E caller \in AccountId, account \in AccountId, proof_hash \in Hashes :
          verify_identity(caller, account, proof_hash)
    \/ \E caller \in AccountId, verifier \in AccountId :
          add_verifier(caller, verifier)
    \/ \E caller \in AccountId, verifier \in AccountId :
          remove_verifier(caller, verifier)
    \/ \E caller \in AccountId, account \in AccountId :
          is_verified(caller, account)
    \/ \E caller \in AccountId, account \in AccountId :
          get_identity(caller, account)
    \/ \E caller \in AccountId, account \in AccountId :
          is_verifier(caller, account)

Spec == Init /\ [][Next]_vars

(* ---- vocabulary of the properties ---- *)
IsErr(r) == r[1] = "Err"
MutatingOps == {"submit_identity", "verify_identity", "add_verifier",
                "remove_verifier"}
Exists(account) == account \in DOMAIN identities

(* C1: a verify_identity call returns the error of the first violated check in
   the order authorization, existence, already-verified, hash match:
   NotAuthorized whenever the caller is not a verifier, whatever the state of
   the account; else NotFound when the account has no identity; else
   AlreadyVerified when it is verified, even with a differing hash; else
   ProofMismatch when the hashes differ. *)
C1_ErrorPrecedence ==
    [][call'.op = "verify_identity" =>
        LET c == call'.caller
            a == call'.account
            h == call'.proof_hash
        IN /\ c \notin verifiers
                => result' = Err(OnlyVerifiers)
           /\ c \in verifiers /\ ~Exists(a)
                => result' = Err(NotFound)
           /\ c \in verifiers /\ Exists(a) /\ identities[a].is_verified
                => result' = Err(AlreadyVerified)
           /\ c \in verifiers /\ Exists(a) /\ ~identities[a].is_verified
                /\ identities[a].proof_hash # h
                => result' = Err(ProofMismatch)]_vars

(* a call violating authorization, already-verified and hash match at once
   has returned the authorization error *)
C1_Witness ==
    /\ call.op = "verify_identity"
    /\ result = Err(OnlyVerifiers)
    /\ call.caller \notin verifiers
    /\ Exists(call.account)
    /\ identities[call.account].is_verified
    /\ identities[call.account].proof_hash # call.proof_hash

(* C2: every call of a mutating message that returns an error leaves
   identities, verifiers and owner as they were before the call. *)
C2_FailureLeavesStateUnchanged ==
    [][call'.op \in MutatingOps /\ IsErr(result')
        => UNCHANGED <<identities, verifiers, owner>>]_vars

(* a verify_identity call has failed on its last check, after the mutable
   lookup of the record *)
C2_Witness ==
    /\ call.op = "verify_identity"
    /\ result = Err(ProofMismatch)
    /\ verifiers # {}
    /\ DOMAIN identities = AccountId

(* C3: the first submit_identity by an account inserts {name, age,
   document_id, proof_hash, is_verified: false, verifier: None} and returns
   success; every later submit_identity by it, with any arguments, returns
   AlreadySubmitted and changes no record; and no step of any message changes
   the submitted fields of a stored record. *)
C3_SubmitOnce ==
    [][/\ call'.op = "submit_identity" =>
            IF Exists(call'.caller)
            THEN /\ result' = Err(AlreadySubmitted)
                 /\ identities' = identities
            ELSE /\ result' = Ok
                 /\ DOMAIN identities' = DOMAIN identities \cup {call'.caller}
                 /\ identities'[call'.caller] =
                        Identity(call'.name, call'.age, call'.document_id,
                                 call'.proof_hash, FALSE, None)
       /\ \A a \in DOMAIN identities :
            /\ a \in DOMAIN identities'
            /\ identities'[a].name = identities[a].name
            /\ identities'[a].age = identities[a].age
            /\ identities'[a].document_id = identities[a].document_id
            /\ identities'[a].proof_hash = identities[a].proof_hash]_vars

(* a second submission with other arguments, made after the record was
   verified, has been rejected and the record still differs from it *)
C3_Witness ==
    /\ call.op = "submit_identity"
    /\ result = Err(AlreadySubmitted)
    /\ identities[call.caller].is_verified
    /\ identities[call.caller].name # call.name
    /\ identities[call.caller].age # call.age
    /\ identities[call.caller].document_id # call.document_id
    /\ identities[call.caller].proof_hash # call.proof_hash

(* C4: when an account that is not a member of verifiers (the owner and the
   account itself included) calls verify_identity(A, h) for a submitted,
   unverified identity A, with any hash h, the call returns NotAuthorized and
   is_verified(A) remains false. *)
C4_NonVerifierRejected ==
    [][/\ call'.op = "verify_identity"
       /\ Exists(call'.account)
       /\ ~identities[call'.account].is_verified
       /\ call'.caller \notin verifiers
       => /\ result' = Err(OnlyVerifiers)
          /\ is_verified_of(identities', call'.account) = FALSE]_vars

(* the owner, never added to verifiers, has presented the correct hash of an
   unverified identity and was rejected *)
C4_Witness ==
    /\ call.op = "verify_identity"
    /\ call.caller = owner
    /\ owner \notin verifiers
    /\ result = Err(OnlyVerifiers)
    /\ Exists(call.account)
    /\ identities[call.account].proof_hash = call.proof_hash
    /\ is_verified_of(identities, call.account) = FALSE

(* C5: when a current verifier V calls verify_identity(A, H) and the identity
   of A exists, is unverified and stores proof_hash H, the call succeeds and
   afterwards is_verified(A) is true and get_identity(A).verifier is Some(V). *)
C5_VerifySucceeds ==
    [][/\ call'.op = "verify_identity"
       /\ call'.caller \in verifiers
       /\ Exists(call'.account)
       /\ ~identities[call'.account].is_verified
       /\ identities[call'.account].proof_hash = call'.proof_hash
       => /\ result' = Ok
          /\ is_verified_of(identities', call'.account) = TRUE
          /\ get_identity_of(identities', call'.account) # None
          /\ get_identity_of(identities', call'.account)[1].verifier = Some(call'.caller)]_vars

(* a verifier has verified the identity of another account *)
C5_Witness ==
    /\ call.op = "verify_identity"
    /\ result = Ok
    /\ call.caller # call.account
    /\ is_verified_of(identities, call.account)
    /\ identities[call.account].verifier = Some(call.caller)

(* C6: when a current verifier calls verify_identity(A, h) on a submitted,
   unverified identity whose stored proof_hash differs from h, the call
   returns ProofMismatch and the record keeps is_verified false and verifier
   None. *)
C6_MismatchRejected ==
    [][/\ call'.op = "verify_identity"
       /\ call'.caller \in verifiers
       /\ Exists(call'.account)
       /\ ~identities[call'.account].is_verified
       /\ identities[call'.account].proof_hash # call'.proof_hash
       => /\ result' = Err(ProofMismatch)
          /\ is_verified_of(identities', call'.account) = FALSE
          /\ identities'[call'.account].verifier = None]_vars

(* a verifier has presented a hash other than the stored one *)
C6_Witness ==
    /\ call.op = "verify_identity"
    /\ call.caller \in verifiers
    /\ result = Err(ProofMismatch)
    /\ identities[call.account].proof_hash # call.proof_hash
    /\ identities[call.account].is_verified = FALSE
    /\ identities[call.account].verifier = None

(* C7 as stated: every verify_identity call for an account that is already
   verified returns AlreadyVerified and leaves its recorded verifier alone. *)
C7_AnySecondAttemptAlreadyVerified ==
    [][/\ call'.op = "verify_identity"
       /\ Exists(call'.account)
       /\ identities[call'.account].is_verified
       => /\ result' = Err(AlreadyVerified)
          /\ identities'[call'.account].verifier =
                identities[call'.account].verifier]_vars

(* C7 as amended: a verify_identity call for an account that is already
   verified, even with the correct hash, returns AlreadyVerified when the
   caller is a current verifier and NotAuthorized when it is not, and in both
   cases the identity stays verified with the same recorded verifier. *)
C7_SecondVerificationRejected ==
    [][/\ call'.op = "verify_identity"
       /\ Exists(call'.account)
       /\ identities[call'.account].is_verified
       => /\ call'.caller \in verifiers => result' = Err(AlreadyVerified)
          /\ call'.caller \notin verifiers => result' = Err(OnlyVerifiers)
          /\ is_verified_of(identities', call'.account) = TRUE
          /\ identities'[call'.account].verifier =
                identities[call'.account].verifier]_vars

(* a verifier other than the recorded one has presented the correct hash of a
   verified identity and got AlreadyVerified *)
C7_Witness ==
    /\ call.op = "verify_identity"
    /\ result = Err(AlreadyVerified)
    /\ identities[call.account].proof_hash = call.proof_hash
    /\ identities[call.account].is_verified
    /\ identities[call.account].verifier # Some(call.caller)

(* C8: add_verifier(X) by the owner makes is_verifier(X) true,
   remove_verifier(X) by the owner makes it false, and either call by any
   other account, a current verifier included, returns NotAuthorized with
   verifiers unchanged. *)
C8_VerifierManagement ==
    [][/\ call'.op = "add_verifier" /\ call'.caller = owner
            => /\ result' = Ok
               /\ is_verifier_of(verifiers', call'.verifier) = TRUE
       /\ call'.op = "remove_verifier" /\ call'.caller = owner
            => /\ result' = Ok
               /\ is_verifier_of(verifiers', call'.verifier) = FALSE
       /\ call'.op = "add_verifier" /\ call'.caller # owner
            => /\ result' = Err(OnlyOwnerAdd)
               /\ verifiers' = verifiers
       /\ call'.op = "remove_verifier" /\ call'.caller # owner
            => /\ result' = Err(OnlyOwnerRemove)
               /\ verifiers' = verifiers]_vars

(* a current verifier that is not the owner has tried to add a verifier that
   is not yet a member *)
C8_Witness ==
    /\ call.op = "add_verifier"
    /\ call.caller # owner
    /\ call.caller \in verifiers
    /\ result = Err(OnlyOwnerAdd)
    /\ ~is_verifier_of(verifiers, call.verifier)

(* C9: in every reachable state a verified identity has verifier Some account
   and an unverified one has verifier None; the step that verifies an identity
   is a verify_identity call for that account whose supplied hash equals the
   stored proof_hash, and the proof_hash of a verified identity no longer
   changes. *)
C9_VerifiedHasVerifierAndHash ==
    /\ [](\A a \in DOMAIN identities :
            /\ identities[a].is_verified
                 => \E v \in AccountId : identities[a].verifier = Some(v)
            /\ ~identities[a].is_verified
                 => identities[a].verifier = None)
    /\ [][\A a \in DOMAIN identities' :
            /\ identities'[a].is_verified /\ ~is_verified_of(identities, a)
                 => /\ call'.op = "verify_identity"
                    /\ call'.account = a
                    /\ call'.proof_hash = identities'[a].proof_hash
            /\ is_verified_of(identities, a)
                 => identities'[a].proof_hash = identities[a].proof_hash]_vars

(* one identity has just been verified with its stored hash while another is
   still unverified *)
C9_Witness ==
    /\ call.op = "verify_identity"
    /\ result = Ok
    /\ identities[call.account].proof_hash = call.proof_hash
    /\ identities[call.account].verifier = Some(call.caller)
    /\ \E b \in DOMAIN identities :
          ~identities[b].is_verified /\ identities[b].verifier = None

(* C10: once an identity is verified it stays verified and keeps the same
   verifier in every later state, whatever messages follow. *)
C10_VerifiedIsPermanent ==
    [][\A a \in DOMAIN identities :
        identities[a].is_verified
            => /\ a \in DOMAIN identities'
               /\ identities'[a].is_verified
               /\ identities'[a].verifier = identities[a].verifier]_vars

(* the account that verified an identity has been removed from verifiers and
   the identity is still verified by it *)
C10_Witness ==
    /\ call.op = "remove_verifier"
    /\ result = Ok
    /\ call.verifier \notin verifiers
    /\ \E a \in DOMAIN identities :
          /\ identities[a].is_verified
          /\ identities[a].verifier = Some(call.verifier)

(* C11: the key set of identities only grows, and grows exactly by the caller
   of each successful submit_identity; no step deletes a record or changes
   its name, age, document_id or proof_hash; a record changes only in
   is_verified and verifier, and only in a successful verify_identity for its
   account. *)
C11_OneRecordPerAccount ==
    [][/\ DOMAIN identities' =
            DOMAIN identities \cup
                (IF call'.op = "submit_identity" /\ result' = Ok
                 THEN {call'.caller} ELSE {})
       /\ \A a \in DOMAIN identities :
            /\ a \in DOMAIN identities'
            /\ identities'[a].name = identities[a].name
            /\ identities'[a].age = identities[a].age
            /\ identities'[a].document_id = identities[a].document_id
            /\ identities'[a].proof_hash = identities[a].proof_hash
            /\ identities'[a] # identities[a]
                 => /\ call'.op = "verify_identity"
                    /\ call'.account = a
                    /\ result' = Ok]_vars

(* every account has a record, and an unverified one has just survived a
   second submission of its account with other fields *)
C11_Witness ==
    /\ DOMAIN identities = AccountId
    /\ call.op = "submit_identity"
    /\ result = Err(AlreadySubmitted)
    /\ ~identities[call.caller].is_verified
    /\ identities[call.caller].document_id # call.document_id

(* C12: owner is the caller of the constructor and has that value in every
   reachable state: no step changes it, and add_verifier and remove_verifier
   succeed exactly for the caller equal to it. *)
C12_OwnerFixed ==
    /\ [](call.op = "new" => owner = call.caller)
    /\ [][/\ owner' = owner
          /\ call'.op \in {"add_verifier", "remove_verifier"}
               => (result' = Ok <=> call'.caller = owner)]_vars

(* the owner has made another account a verifier, that account has tried to
   manage the verifiers and was refused *)
C12_Witness ==
    /\ call.op = "remove_verifier"
    /\ call.caller \in verifiers
    /\ call.caller # owner
    /\ call.verifier = owner
    /\ IsErr(result)

(* C13: verifiers changes only in a successful add_verifier or
   remove_verifier called by the owner, and then only in the membership of
   the named account; submit_identity, verify_identity and the three read
   messages leave verifiers unchanged; add_verifier and remove_verifier
   leave identities unchanged. *)
C13_VerifiersFrame ==
    [][/\ verifiers' # verifiers
            => /\ call'.op \in {"add_verifier", "remove_verifier"}
               /\ call'.caller = owner
               /\ result' = Ok
               /\ verifiers' \ {call'.verifier} = verifiers \ {call'.verifier}
       /\ call'.op \in {"submit_identity", "verify_identity", "is_verified",
                        "get_identity", "is_verifier"}
            => verifiers' = verifiers
       /\ call'.op \in {"add_verifier", "remove_verifier"}
            => identities' = identities]_vars

(* the owner has removed one of two verifiers, the other is still a member,
   and identities are stored *)
C13_Witness ==
    /\ call.op = "remove_verifier"
    /\ call.caller = owner
    /\ result = Ok
    /\ call.verifier \notin verifiers
    /\ verifiers # {}
    /\ DOMAIN identities # {}

(* C14: add_verifier(X) by the owner when X is already a member, and
   remove_verifier(X) by the owner when X is not a member, return success and
   leave verifiers unchanged, so a repeated call leaves the state of the
   first. *)
C14_VerifierOpsIdempotent ==
    [][/\ /\ call'.op = "add_verifier"
          /\ call'.caller = owner
          /\ call'.verifier \in verifiers
          => result' = Ok /\ UNCHANGED <<identities, verifiers, owner, events>>
       /\ /\ call'.op = "remove_verifier"
          /\ call'.caller = owner
          /\ call'.verifier \notin verifiers
          => result' = Ok /\ UNCHANGED <<identities, verifiers, owner, events>>]_vars

(* the owner has added, with success, an account that had already acted as
   a verifier *)
C14_Witness ==
    /\ call.op = "add_verifier"
    /\ call.caller = owner
    /\ result = Ok
    /\ call.verifier \in verifiers
    /\ \E a \in DOMAIN identities :
          identities[a].verifier = Some(call.verifier)

(* C15: is_verified(account) returns true iff a record exists for account
   and its flag is set, get_identity(account) returns the stored record or
   absent, is_verifier(account) returns membership in verifiers; each answers
   any caller and leaves identities, verifiers, owner and events unchanged. *)
C15_ReadsAgreeWithState ==
    [][/\ call'.op = "is_verified"
            => result' = Ret(/\ call'.account \in DOMAIN identities
                             /\ identities[call'.account].is_verified)
       /\ call'.op = "get_identity"
            => result' = Ret(IF call'.account \in DOMAIN identities
                             THEN Some(identities[call'.account])
                             ELSE None)
       /\ call'.op = "is_verifier"
            => result' = Ret(call'.account \in verifiers)
       /\ call'.op \in {"is_verified", "get_identity", "is_verifier"}
            => UNCHANGED <<identities, verifiers, owner, events>>]_vars

(* an account that is neither owner nor verifier has asked is_verified of a
   submitted, unverified account and got false *)
C15_Witness ==
    /\ call.op = "is_verified"
    /\ call.caller # owner
    /\ call.caller \notin verifiers
    /\ call.account \in DOMAIN identities
    /\ ~identities[call.account].is_verified
    /\ result = Ret(FALSE)

(* C16: a successful submit_identity appends exactly one
   IdentitySubmitted{account: caller, name, age, proof_hash} with the call's
   values, a successful verify_identity appends exactly one
   IdentityVerified{account, verifier: caller}, and every other call, the
   failing ones included, emits nothing. *)
C16_EventsOnSuccessOnly ==
    [][IF call'.op = "submit_identity" /\ result' = Ok
       THEN events' = events \o
                <<[event |-> "IdentitySubmitted", account |-> call'.caller,
                   name |-> call'.name, age |-> call'.age,
                   proof_hash |-> call'.proof_hash]>>
       ELSE IF call'.op = "verify_identity" /\ result' = Ok
       THEN events' = events \o
                <<[event |-> "IdentityVerified", account |-> call'.account,
                   verifier |-> call'.caller]>>
       ELSE events' = events]_vars

(* after a submission and a verification were announced, a submission has
   failed and the two events are all there is *)
C16_Witness ==
    /\ call.op = "submit_identity"
    /\ result = Err(AlreadySubmitted)
    /\ Len(events) = 2
    /\ events[1].event = "IdentitySubmitted"
    /\ events[2].event = "IdentityVerified"
    /\ events[2].account = events[1].account
    /\ events[2].verifier # events[1].account

(* C17: the verifier recorded on an identity is written only by a successful
   verify_identity, is the caller of that call, and was a member of verifiers
   when the call was made; verifiers is empty at construction and an account
   enters it only through a successful add_verifier by the owner naming it. *)
C17_VerifiedOnlyByVerifiers ==
    /\ [](call.op = "new" => verifiers = {})
    /\ [][/\ \A a \in DOMAIN identities' :
               /\ identities'[a].verifier # None
               /\ a \in DOMAIN identities
                    => identities'[a].verifier # identities[a].verifier
               => /\ call'.op = "verify_identity"
                  /\ call'.account = a
                  /\ result' = Ok
                  /\ identities'[a].verifier = Some(call'.caller)
                  /\ call'.caller \in verifiers
          /\ \A v \in verifiers' \ verifiers :
               /\ call'.op = "add_verifier"
               /\ call'.caller = owner
               /\ call'.verifier = v
               /\ result' = Ok]_vars

(* an account that verified an identity and was removed afterwards has tried
   to verify again and was refused; its earlier verification stands *)
C17_Witness ==
    /\ call.op = "verify_identity"
    /\ result = Err(OnlyVerifiers)
    /\ call.caller \notin verifiers
    /\ \E a \in DOMAIN identities :
          /\ identities[a].is_verified
          /\ identities[a].verifier = Some(call.caller)

(* the state of a registry no add_verifier has succeeded on *)
NothingVerifiable ==
    /\ verifiers = {}
    /\ \A a \in DOMAIN identities : ~identities[a].is_verified

(* C18: verifiers is empty at creation and the owner has no verification
   right of its own: until the first successful add_verifier the set stays
   empty, no identity is verified and every verify_identity call, the
   owner's included, returns NotAuthorized; a verify_identity call succeeds
   only for a caller in verifiers, and an account enters verifiers only by a
   successful add_verifier naming it. *)
C18_NoVerificationBeforeAdd ==
    /\ [](call.op = "new" => NothingVerifiable)
    /\ [][/\ NothingVerifiable /\ ~(call'.op = "add_verifier" /\ result' = Ok)
               => /\ NothingVerifiable'
                  /\ call'.op = "verify_identity"
                       => result' = Err(OnlyVerifiers)
          /\ call'.op = "verify_identity" /\ result' = Ok
               => call'.caller \in verifiers
          /\ verifiers' \ verifiers # {}
               => /\ call'.op = "add_verifier"
                  /\ result' = Ok
                  /\ verifiers' \ verifiers = {call'.verifier}]_vars

(* with every account submitted and no verifier enrolled, the owner has
   presented a correct hash and was refused *)
C18_Witness ==
    /\ NothingVerifiable
    /\ DOMAIN identities = AccountId
    /\ call.op = "verify_identity"
    /\ call.caller = owner
    /\ call.account # owner
    /\ identities[call.account].proof_hash = call.proof_hash
    /\ result = Err(OnlyVerifiers)

(* positions in events of the events of one kind, of one account *)
EventsOfKind(kind) == {i \in 1..Len(events) : events[i].event = kind}
EventsOf(kind, a) == {i \in EventsOfKind(kind) : events[i].account = a}

(* C19: in the emitted events every account has at most one
   IdentitySubmitted and at most one IdentityVerified, an IdentityVerified
   of an account comes after its IdentitySubmitted, the number of
   IdentitySubmitted events equals the number of stored identities and the
   number of IdentityVerified events the number of verified identities. *)
C19_EventsMatchRecords ==
    /\ \A a \in AccountId :
          /\ Cardinality(EventsOf("IdentitySubmitted", a)) <= 1
          /\ Cardinality(EventsOf("IdentityVerified", a)) <= 1
          /\ \A j \in EventsOf("IdentityVerified", a) :
                \E i \in EventsOf("IdentitySubmitted", a) : i < j
    /\ Cardinality(EventsOfKind("IdentitySubmitted")) =
          Cardinality(DOMAIN identities)
    /\ Cardinality(EventsOfKind("IdentityVerified")) =
          Cardinality({a \in DOMAIN identities : identities[a].is_verified})

(* every account was submitted and verified, the verification of one
   announced before the submission of the other *)
C19_Witness ==
    /\ Len(events) = 2 * NumAccounts
    /\ events[1].event = "IdentitySubmitted"
    /\ events[2].event = "IdentityVerified"
    /\ \A a \in AccountId : a \in DOMAIN identities /\ identities[a].is_verified

(* C20: verify_identity relates caller and account in no way: a current
   verifier that has submitted its own identity with hash H and calls
   verify_identity on itself with H succeeds and is recorded as its own
   verifier; the owner reaches this after add_verifier(owner). *)
C20_SelfVerificationAllowed ==
    [][/\ call'.op = "verify_identity"
       /\ call'.caller = call'.account
       /\ call'.caller \in verifiers
       /\ Exists(call'.caller)
       /\ ~identities[call'.caller].is_verified
       /\ identities[call'.caller].proof_hash = call'.proof_hash
       => /\ result' = Ok
          /\ get_identity_of(identities', call'.caller) # None
          /\ get_identity_of(identities', call'.caller)[1].verifier =
                Some(call'.caller)]_vars

(* the owner and every other account are recorded as their own verifier, the
   last of them having just verified itself *)
C20_Witness ==
    /\ call.op = "verify_identity"
    /\ call.caller = call.account
    /\ result = Ok
    /\ owner \in verifiers
    /\ \A a \in AccountId :
          a \in DOMAIN identities /\ identities[a].verifier = Some(a)

====
